---- MODULE Spec2Model ----
(***************************************************************************)
(* Model of demo_numerique.py: the five step generators of the binary      *)
(* search family (steps_find_any, steps_first_occurrence,                  *)
(* steps_last_occurrence, steps_bisect_left, steps_bisect_right), the      *)
(* runner run_steps that pulls a generator step by step, and the two       *)
(* composite runs run_count_occurrences and run_range_first_last.          *)
(*                                                                         *)
(* A Python list is a TLA+ sequence; the Python index i is the TLA+ index  *)
(* i + 1.  An Optional[int] is <<>> (None) or <<v>>.  A Step's explanation *)
(* text is display only and is left out of the Step record.                *)
(***************************************************************************)
EXTENDS Integers, Sequences, FiniteSets

\* Longest list and largest list value explored; keys range over 0..MaxVal+1.
MaxLen == 7
MaxVal == 3

VARIABLES
    arr,        \* the list handed to the run (read only)
    x,          \* the key
    algo,       \* 0: nothing called yet; 1..7: the entry point called
    phase,      \* which run_steps call of the entry point is active (1 or 2)
    rpc,        \* position inside run_steps
    generator,  \* run_steps' parameter: the generator function's name
    it,         \* the generator object's frame: pc, g, d, m, res
    st,         \* the for loop's variable: <<>> before the first step, else <<step>>
    step_no,    \* run_steps' local
    result,     \* run_steps' local (Optional[int])
    first,      \* run_count_occurrences / run_range_first_last local
    last,       \* idem
    count,      \* run_count_occurrences local (Optional: <<>> until computed)
    reqlog,     \* what each next() of the current run gave: <<step>> or <<>> (StopIteration)
    drawn,      \* the steps draw_array put on the screen in the current run
    acks        \* how many per-step pause() calls returned in the current run

vars == <<arr, x, algo, phase, rpc, generator, it, st, step_no, result,
          first, last, count, reqlog, drawn, acks>>

None == <<>>
Some(v) == <<v>>

\* ---------------------------------------------------------------- lists

IsSorted(s) == \A i \in 1..Len(s) : \A j \in 1..Len(s) : i < j => s[i] <= s[j]

SortedLists ==
    {s \in UNION {[1..n -> 1..MaxVal] : n \in 0..MaxLen} : IsSorted(s)}

Keys == 0..(MaxVal + 1)

\* Python's arr[i]: defined for -len <= i < len (a negative i counts from the end).
Indexable(a, i) == -Len(a) <= i /\ i < Len(a)

At(a, i) == IF i >= 0 THEN a[i + 1] ELSE a[Len(a) + i + 1]

\* ---------------------------------------------------------------- steps

Step(left, right, mid, relation, done, payload) ==
    [left |-> left, right |-> right, mid |-> mid, relation |-> relation,
     done |-> done, payload |-> payload]

Mid(g, d) == (g + d) \div 2

NewFrame == [pc |-> "start", g |-> 0, d |-> 0, m |-> 0, res |-> -1]

\* The generator suspends at a yield: the frame remembers the yield site.
Yield(f, site, s) == [frame |-> [f EXCEPT !.pc = site], out |-> <<s>>]

\* The generator function returns: next() raises StopIteration.
Stop(f) == [frame |-> [f EXCEPT !.pc = "returned"], out |-> <<>>]

\* arr[m] raises IndexError inside the generator.
Raise(f) == [frame |-> [f EXCEPT !.pc = "raised"], out |-> <<>>]

\* ---------------------------------------------------------------- generators
\* Each operator is one next() on the generator object: it finishes the
\* statement the frame was suspended in, runs to the next yield (or to the
\* function's end) and gives the new frame and what next() produced.

\* Mutant of steps_find_any: the loop test is g < d.
steps_find_any_strict_loop(a, k, f) ==
    LET f1 == CASE f.pc = "start" -> [f EXCEPT !.g = 0, !.d = Len(a) - 1]
                [] f.pc = "<"     -> [f EXCEPT !.g = f.m + 1]
                [] f.pc = ">"     -> [f EXCEPT !.d = f.m - 1]
                [] OTHER          -> f
        g == f1.g
        d == f1.d
        m == Mid(g, d)
        f2 == [f1 EXCEPT !.m = m]
    IN  IF f.pc \in {"==", "final", "returned", "raised"} THEN Stop(f)
        ELSE IF g < d THEN
            IF ~Indexable(a, m) THEN Raise(f2)
            ELSE IF At(a, m) = k
                THEN Yield(f2, "==", Step(g, d, m, "==", TRUE, Some(m)))
            ELSE IF At(a, m) < k
                THEN Yield(f2, "<", Step(g, d, m, "<", FALSE, None))
            ELSE Yield(f2, ">", Step(g, d, m, ">", FALSE, None))
        ELSE Yield(f1, "final",
                   Step(g, d, IF g + d >= 0 THEN Mid(g, d) ELSE 0, "final",
                        TRUE, Some(-1)))

\* Mutant of steps_find_any: no return after the "==" yield, the loop goes on.
steps_find_any_no_return(a, k, f) ==
    LET f1 == CASE f.pc = "start" -> [f EXCEPT !.g = 0, !.d = Len(a) - 1]
                [] f.pc = "<"     -> [f EXCEPT !.g = f.m + 1]
                [] f.pc = ">"     -> [f EXCEPT !.d = f.m - 1]
                [] OTHER          -> f
        g == f1.g
        d == f1.d
        m == Mid(g, d)
        f2 == [f1 EXCEPT !.m = m]
    IN  IF f.pc \in {"final", "returned", "raised"} THEN Stop(f)
        ELSE IF g <= d THEN
            IF ~Indexable(a, m) THEN Raise(f2)
            ELSE IF At(a, m) = k
                THEN Yield(f2, "==", Step(g, d, m, "==", TRUE, Some(m)))
            ELSE IF At(a, m) < k
                THEN Yield(f2, "<", Step(g, d, m, "<", FALSE, None))
            ELSE Yield(f2, ">", Step(g, d, m, ">", FALSE, None))
        ELSE Yield(f1, "final",
                   Step(g, d, IF g + d >= 0 THEN Mid(g, d) ELSE 0, "final",
                        TRUE, Some(-1)))

steps_find_any(a, k, f) ==
    LET f1 == CASE f.pc = "start" -> [f EXCEPT !.g = 0, !.d = Len(a) - 1]
                [] f.pc = "<"     -> [f EXCEPT !.g = f.m + 1]
                [] f.pc = ">"     -> [f EXCEPT !.d = f.m - 1]
                [] OTHER          -> f
        g == f1.g
        d == f1.d
        m == Mid(g, d)
        f2 == [f1 EXCEPT !.m = m]
    IN  IF f.pc \in {"==", "final", "returned", "raised"} THEN Stop(f)
        ELSE IF g <= d THEN
            IF ~Indexable(a, m) THEN Raise(f2)
            ELSE IF At(a, m) = k
                THEN Yield(f2, "==", Step(g, d, m, "==", TRUE, Some(m)))
            ELSE IF At(a, m) < k
                THEN Yield(f2, "<", Step(g, d, m, "<", FALSE, None))
            ELSE Yield(f2, ">", Step(g, d, m, ">", FALSE, None))
        ELSE Yield(f1, "final",
                   Step(g, d, IF g + d >= 0 THEN Mid(g, d) ELSE 0, "final",
                        TRUE, Some(-1)))

\* Mutant of steps_first_occurrence: the "==" step is marked done.
steps_first_occurrence_eq_done(a, k, f) ==
    LET f1 == CASE f.pc = "start" -> [f EXCEPT !.g = 0, !.d = Len(a) - 1, !.res = -1]
                [] f.pc \in {"==", ">="} -> [f EXCEPT !.d = f.m - 1]
                [] f.pc = "<"     -> [f EXCEPT !.g = f.m + 1]
                [] OTHER          -> f
        g == f1.g
        d == f1.d
        m == Mid(g, d)
        f2 == [f1 EXCEPT !.m = m]
    IN  IF f.pc \in {"final", "returned", "raised"} THEN Stop(f)
        ELSE IF g <= d THEN
            IF ~Indexable(a, m) THEN Raise(f2)
            ELSE IF At(a, m) >= k THEN
                IF At(a, m) = k
                THEN Yield([f2 EXCEPT !.res = m], "==",
                           Step(g, d, m, "==", TRUE, Some(m)))
                ELSE Yield(f2, ">=", Step(g, d, m, ">=", FALSE, None))
            ELSE Yield(f2, "<", Step(g, d, m, "<", FALSE, None))
        ELSE Yield(f1, "final", Step(g, d, g, "final", TRUE, Some(f1.res)))

\* Mutant of steps_first_occurrence: res starts at 0.
steps_first_occurrence_res_zero(a, k, f) ==
    LET f1 == CASE f.pc = "start" -> [f EXCEPT !.g = 0, !.d = Len(a) - 1, !.res = 0]
                [] f.pc \in {"==", ">="} -> [f EXCEPT !.d = f.m - 1]
                [] f.pc = "<"     -> [f EXCEPT !.g = f.m + 1]
                [] OTHER          -> f
        g == f1.g
        d == f1.d
        m == Mid(g, d)
        f2 == [f1 EXCEPT !.m = m]
    IN  IF f.pc \in {"final", "returned", "raised"} THEN Stop(f)
        ELSE IF g <= d THEN
            IF ~Indexable(a, m) THEN Raise(f2)
            ELSE IF At(a, m) >= k THEN
                IF At(a, m) = k
                THEN Yield([f2 EXCEPT !.res = m], "==",
                           Step(g, d, m, "==", FALSE, None))
                ELSE Yield(f2, ">=", Step(g, d, m, ">=", FALSE, None))
            ELSE Yield(f2, "<", Step(g, d, m, "<", FALSE, None))
        ELSE Yield(f1, "final", Step(g, d, g, "final", TRUE, Some(f1.res)))

steps_first_occurrence(a, k, f) ==
    LET f1 == CASE f.pc = "start" -> [f EXCEPT !.g = 0, !.d = Len(a) - 1, !.res = -1]
                [] f.pc \in {"==", ">="} -> [f EXCEPT !.d = f.m - 1]
                [] f.pc = "<"     -> [f EXCEPT !.g = f.m + 1]
                [] OTHER          -> f
        g == f1.g
        d == f1.d
        m == Mid(g, d)
        f2 == [f1 EXCEPT !.m = m]
    IN  IF f.pc \in {"final", "returned", "raised"} THEN Stop(f)
        ELSE IF g <= d THEN
            IF ~Indexable(a, m) THEN Raise(f2)
            ELSE IF At(a, m) >= k THEN
                IF At(a, m) = k
                THEN Yield([f2 EXCEPT !.res = m], "==",
                           Step(g, d, m, "==", FALSE, None))
                ELSE Yield(f2, ">=", Step(g, d, m, ">=", FALSE, None))
            ELSE Yield(f2, "<", Step(g, d, m, "<", FALSE, None))
        ELSE Yield(f1, "final", Step(g, d, g, "final", TRUE, Some(f1.res)))

\* Mutant of steps_last_occurrence: the comparison is arr[m] < x.
steps_last_occurrence_strict_cmp(a, k, f) ==
    LET f1 == CASE f.pc = "start" -> [f EXCEPT !.g = 0, !.d = Len(a) - 1, !.res = -1]
                [] f.pc \in {"==", "<="} -> [f EXCEPT !.g = f.m + 1]
                [] f.pc = ">"     -> [f EXCEPT !.d = f.m - 1]
                [] OTHER          -> f
        g == f1.g
        d == f1.d
        m == Mid(g, d)
        f2 == [f1 EXCEPT !.m = m]
    IN  IF f.pc \in {"final", "returned", "raised"} THEN Stop(f)
        ELSE IF g <= d THEN
            IF ~Indexable(a, m) THEN Raise(f2)
            ELSE IF At(a, m) < k THEN
                IF At(a, m) = k
                THEN Yield([f2 EXCEPT !.res = m], "==",
                           Step(g, d, m, "==", FALSE, None))
                ELSE Yield(f2, "<=", Step(g, d, m, "<=", FALSE, None))
            ELSE Yield(f2, ">", Step(g, d, m, ">", FALSE, None))
        ELSE Yield(f1, "final", Step(g, d, d, "final", TRUE, Some(f1.res)))

\* Mutant of steps_last_occurrence: d starts at len(arr).
steps_last_occurrence_right_len(a, k, f) ==
    LET f1 == CASE f.pc = "start" -> [f EXCEPT !.g = 0, !.d = Len(a), !.res = -1]
                [] f.pc \in {"==", "<="} -> [f EXCEPT !.g = f.m + 1]
                [] f.pc = ">"     -> [f EXCEPT !.d = f.m - 1]
                [] OTHER          -> f
        g == f1.g
        d == f1.d
        m == Mid(g, d)
        f2 == [f1 EXCEPT !.m = m]
    IN  IF f.pc \in {"final", "returned", "raised"} THEN Stop(f)
        ELSE IF g <= d THEN
            IF ~Indexable(a, m) THEN Raise(f2)
            ELSE IF At(a, m) <= k THEN
                IF At(a, m) = k
                THEN Yield([f2 EXCEPT !.res = m], "==",
                           Step(g, d, m, "==", FALSE, None))
                ELSE Yield(f2, "<=", Step(g, d, m, "<=", FALSE, None))
            ELSE Yield(f2, ">", Step(g, d, m, ">", FALSE, None))
        ELSE Yield(f1, "final", Step(g, d, d, "final", TRUE, Some(f1.res)))

steps_last_occurrence(a, k, f) ==
    LET f1 == CASE f.pc = "start" -> [f EXCEPT !.g = 0, !.d = Len(a) - 1, !.res = -1]
                [] f.pc \in {"==", "<="} -> [f EXCEPT !.g = f.m + 1]
                [] f.pc = ">"     -> [f EXCEPT !.d = f.m - 1]
                [] OTHER          -> f
        g == f1.g
        d == f1.d
        m == Mid(g, d)
        f2 == [f1 EXCEPT !.m = m]
    IN  IF f.pc \in {"final", "returned", "raised"} THEN Stop(f)
        ELSE IF g <= d THEN
            IF ~Indexable(a, m) THEN Raise(f2)
            ELSE IF At(a, m) <= k THEN
                IF At(a, m) = k
                THEN Yield([f2 EXCEPT !.res = m], "==",
                           Step(g, d, m, "==", FALSE, None))
                ELSE Yield(f2, "<=", Step(g, d, m, "<=", FALSE, None))
            ELSE Yield(f2, ">", Step(g, d, m, ">", FALSE, None))
        ELSE Yield(f1, "final", Step(g, d, d, "final", TRUE, Some(f1.res)))

\* Mutant of steps_bisect_left: g <- m instead of m + 1.
steps_bisect_left_no_advance(a, k, f) ==
    LET f1 == CASE f.pc = "start" -> [f EXCEPT !.g = 0, !.d = Len(a)]
                [] f.pc = "<"     -> [f EXCEPT !.g = f.m]
                [] f.pc = ">="    -> [f EXCEPT !.d = f.m]
                [] OTHER          -> f
        g == f1.g
        d == f1.d
        m == Mid(g, d)
        f2 == [f1 EXCEPT !.m = m]
    IN  IF f.pc \in {"final", "returned", "raised"} THEN Stop(f)
        ELSE IF g < d THEN
            IF ~Indexable(a, m) THEN Raise(f2)
            ELSE IF At(a, m) < k
                THEN Yield(f2, "<", Step(g, d - 1, m, "<", FALSE, None))
            ELSE Yield(f2, ">=", Step(g, d - 1, m, ">=", FALSE, None))
        ELSE Yield(f1, "final", Step(g, d - 1, g, "final", TRUE, Some(g)))

steps_bisect_left(a, k, f) ==
    LET f1 == CASE f.pc = "start" -> [f EXCEPT !.g = 0, !.d = Len(a)]
                [] f.pc = "<"     -> [f EXCEPT !.g = f.m + 1]
                [] f.pc = ">="    -> [f EXCEPT !.d = f.m]
                [] OTHER          -> f
        g == f1.g
        d == f1.d
        m == Mid(g, d)
        f2 == [f1 EXCEPT !.m = m]
    IN  IF f.pc \in {"final", "returned", "raised"} THEN Stop(f)
        ELSE IF g < d THEN
            IF ~Indexable(a, m) THEN Raise(f2)
            ELSE IF At(a, m) < k
                THEN Yield(f2, "<", Step(g, d - 1, m, "<", FALSE, None))
            ELSE Yield(f2, ">=", Step(g, d - 1, m, ">=", FALSE, None))
        ELSE Yield(f1, "final", Step(g, d - 1, g, "final", TRUE, Some(g)))

\* Mutant of steps_bisect_right: the comparison is arr[m] < x.
steps_bisect_right_strict_cmp(a, k, f) ==
    LET f1 == CASE f.pc = "start" -> [f EXCEPT !.g = 0, !.d = Len(a)]
                [] f.pc = "<="    -> [f EXCEPT !.g = f.m + 1]
                [] f.pc = ">"     -> [f EXCEPT !.d = f.m]
                [] OTHER          -> f
        g == f1.g
        d == f1.d
        m == Mid(g, d)
        f2 == [f1 EXCEPT !.m = m]
    IN  IF f.pc \in {"final", "returned", "raised"} THEN Stop(f)
        ELSE IF g < d THEN
            IF ~Indexable(a, m) THEN Raise(f2)
            ELSE IF At(a, m) < k
                THEN Yield(f2, "<=", Step(g, d - 1, m, "<=", FALSE, None))
            ELSE Yield(f2, ">", Step(g, d - 1, m, ">", FALSE, None))
        ELSE Yield(f1, "final", Step(g, d - 1, g, "final", TRUE, Some(g)))

steps_bisect_right(a, k, f) ==
    LET f1 == CASE f.pc = "start" -> [f EXCEPT !.g = 0, !.d = Len(a)]
                [] f.pc = "<="    -> [f EXCEPT !.g = f.m + 1]
                [] f.pc = ">"     -> [f EXCEPT !.d = f.m]
                [] OTHER          -> f
        g == f1.g
        d == f1.d
        m == Mid(g, d)
        f2 == [f1 EXCEPT !.m = m]
    IN  IF f.pc \in {"final", "returned", "raised"} THEN Stop(f)
        ELSE IF g < d THEN
            IF ~Indexable(a, m) THEN Raise(f2)
            ELSE IF At(a, m) <= k
                THEN Yield(f2, "<=", Step(g, d - 1, m, "<=", FALSE, None))
            ELSE Yield(f2, ">", Step(g, d - 1, m, ">", FALSE, None))
        ELSE Yield(f1, "final", Step(g, d - 1, g, "final", TRUE, Some(g)))

\* next(it) for the generator object made by fn(a, k).
Resume(fn, a, k, f) ==
    CASE fn = "steps_find_any"         -> steps_find_any(a, k, f)
      [] fn = "steps_first_occurrence" -> steps_first_occurrence(a, k, f)
      [] fn = "steps_last_occurrence"  -> steps_last_occurrence(a, k, f)
      [] fn = "steps_bisect_left"      -> steps_bisect_left(a, k, f)
      [] fn = "steps_bisect_right"     -> steps_bisect_right(a, k, f)

\* ---------------------------------------------------------------- runner

\* The generator an entry point hands to its n-th run_steps call.
GeneratorOf(al, n) ==
    CASE al = 1 -> "steps_find_any"
      [] al = 2 -> "steps_first_occurrence"
      [] al = 3 -> "steps_last_occurrence"
      [] al = 4 -> "steps_bisect_left"
      [] al = 5 -> "steps_bisect_right"
      [] al \in {6, 7} -> IF n = 1 THEN "steps_first_occurrence"
                                   ELSE "steps_last_occurrence"

\* run_steps up to the for statement: the locals, and generator(arr, x), which
\* makes the generator object without running any of its body.
EnterRunSteps(fn) ==
    /\ generator' = fn
    /\ it' = NewFrame
    /\ st' = <<>>
    /\ step_no' = 1
    /\ result' = None
    /\ reqlog' = <<>>
    /\ drawn' = <<>>
    /\ acks' = 0
    /\ rpc' = "next"

Init ==
    /\ arr = <<>>
    /\ x = 0
    /\ algo = 0
    /\ phase = 0
    /\ rpc = "none"
    /\ generator = "none"
    /\ it = NewFrame
    /\ st = <<>>
    /\ step_no = 0
    /\ result = None
    /\ first = None
    /\ last = None
    /\ count = None
    /\ reqlog = <<>>
    /\ drawn = <<>>
    /\ acks = 0

\* A caller runs one of the seven entry points (the five run_steps calls,
\* run_count_occurrences, run_range_first_last) on a sorted list and a key.
\* The entry points are functions of any list: main's shortcut, which answers
\* for an empty list without calling them, is not part of this action.
Call(a, k, al) ==
    /\ algo = 0
    /\ arr' = a
    /\ x' = k
    /\ algo' = al
    /\ phase' = 1
    /\ EnterRunSteps(GeneratorOf(al, 1))
    /\ UNCHANGED <<first, last, count>>

\* The for statement asks the generator for its next step.
ForNext ==
    /\ rpc = "next"
    /\ LET n == Resume(generator, arr, x, it) IN
        /\ it' = n.frame
        /\ reqlog' = Append(reqlog, n.out)
        /\ IF n.frame.pc = "raised" THEN rpc' = "raised" /\ st' = st
           ELSE IF n.out = <<>> THEN rpc' = "result" /\ st' = st
           ELSE rpc' = "draw" /\ st' = n.out
    /\ UNCHANGED <<arr, x, algo, phase, generator, step_no, result, first, last,
                   count, drawn, acks>>

\* Mutant of Draw: the per-step pause is left out.
Draw_no_pause ==
    /\ rpc = "draw"
    /\ drawn' = Append(drawn, [step |-> st[1], no |-> step_no])
    /\ result' = IF st[1].done THEN st[1].payload ELSE result
    /\ step_no' = step_no + 1
    /\ rpc' = "next"
    /\ UNCHANGED <<arr, x, algo, phase, generator, it, st, first, last, count,
                   reqlog, acks>>

\* The loop body up to the pause: the step is drawn, a done step's payload is kept.
Draw ==
    /\ rpc = "draw"
    /\ drawn' = Append(drawn, [step |-> st[1], no |-> step_no])
    /\ result' = IF st[1].done THEN st[1].payload ELSE result
    /\ step_no' = step_no + 1
    /\ rpc' = "pause"
    /\ UNCHANGED <<arr, x, algo, phase, generator, it, st, first, last, count,
                   reqlog, acks>>

\* pause("Entrée pour étape suivante...") returns.
Pause ==
    /\ rpc = "pause"
    /\ acks' = acks + 1
    /\ rpc' = "next"
    /\ UNCHANGED <<arr, x, algo, phase, generator, it, st, step_no, result, first,
                   last, count, reqlog, drawn>>

\* After the loop: the result screen, the last pause, return result.
ReturnResult ==
    /\ rpc = "result"
    /\ rpc' = "returned"
    /\ UNCHANGED <<arr, x, algo, phase, generator, it, st, step_no, result, first,
                   last, count, reqlog, drawn, acks>>

\* Mutant of CountOf: last - first, without the + 1.
CountOf_no_plus_one(fi, la) ==
    IF fi = Some(-1) \/ fi = None THEN Some(0)
    ELSE IF la = None \/ la[1] < fi[1] THEN Some(0)
    ELSE Some(la[1] - fi[1])

\* last - first + 1 occurrences, 0 when the key is absent.
CountOf(fi, la) ==
    IF fi = Some(-1) \/ fi = None THEN Some(0)
    ELSE IF la = None \/ la[1] < fi[1] THEN Some(0)
    ELSE Some(la[1] - fi[1] + 1)

\* run_count_occurrences / run_range_first_last: the first run returned, the
\* second one starts.
SecondRun ==
    /\ algo \in {6, 7}
    /\ phase = 1
    /\ rpc = "returned"
    /\ first' = result
    /\ phase' = 2
    /\ EnterRunSteps(GeneratorOf(algo, 2))
    /\ UNCHANGED <<arr, x, algo, last, count>>

\* The second run returned: the summary screen.
Bilan ==
    /\ algo \in {6, 7}
    /\ phase = 2
    /\ rpc = "returned"
    /\ last' = result
    /\ count' = IF algo = 6 THEN CountOf(first, result) ELSE count
    /\ phase' = 3
    /\ UNCHANGED <<arr, x, algo, rpc, generator, it, st, step_no, result, first,
                   reqlog, drawn, acks>>

Next ==
    \/ algo = 0 /\ \E a \in SortedLists : \E k \in Keys : \E al \in 1..7 : Call(a, k, al)
    \/ ForNext
    \/ Draw
    \/ Pause
    \/ ReturnResult
    \/ SecondRun
    \/ Bilan

Spec == Init /\ [][Next]_vars

\* run_steps without the screen: the payload of the done step of fn(a, k).
RECURSIVE Pull(_, _, _, _, _)
Pull(fn, a, k, f, r) ==
    LET n == Resume(fn, a, k, f) IN
    IF n.out = <<>> THEN r
    ELSE Pull(fn, a, k, n.frame, IF n.out[1].done THEN n.out[1].payload ELSE r)

RunResult(fn, a, k) == Pull(fn, a, k, NewFrame, None)

\* ---------------------------------------------------------------- properties

\* The steps the current run's generator yielded so far, in order.
Steps ==
    LET s == SelectSeq(reqlog, LAMBDA o : o # <<>>)
    IN  [i \in 1..Len(s) |-> s[i][1]]

IsDoneStep(o) == o # <<>> /\ o[1].done

\* The Python indices at which the key occurs.
Occ == {i \in 0..(Len(arr) - 1) : arr[i + 1] = x}

MinOf(S) == CHOOSE i \in S : \A j \in S : i <= j
MaxOf(S) == CHOOSE i \in S : \A j \in S : j <= i

CountLess == Cardinality({i \in 1..Len(arr) : arr[i] < x})
CountLessEq == Cardinality({i \in 1..Len(arr) : arr[i] <= x})

RECURSIVE Log2Floor(_)
Log2Floor(n) == IF n <= 1 THEN 0 ELSE 1 + Log2Floor(n \div 2)

\* The frame of the generator object of fn(a, k) after n calls of next().
RECURSIVE FrameAfter(_, _, _, _)
FrameAfter(fn, a, k, n) ==
    IF n = 0 THEN NewFrame ELSE Resume(fn, a, k, FrameAfter(fn, a, k, n - 1)).frame

\* C1: every generator's trace is non-empty and has exactly one done step,
\* its last: a done step is never followed by another step, and a generator
\* that has returned has yielded at least one step, the last of them done.
C1_DoneExactlyLast ==
    /\ \A i \in 1..Len(Steps) : Steps[i].done => i = Len(Steps)
    /\ it.pc = "returned" => Len(Steps) >= 1 /\ Steps[Len(Steps)].done
    /\ it.pc # "raised"

C1_Witness ==
    /\ it.pc = "returned"
    /\ generator = "steps_first_occurrence"
    /\ Len(Steps) >= 3
    /\ \E i \in 1..Len(Steps) : Steps[i].relation = "==" /\ ~Steps[i].done

\* C2: the payload of presence's done step is an index holding the key when
\* the key occurs in the list, and -1 when it does not.
C2_PresenceCorrect ==
    generator = "steps_find_any" =>
        /\ \A i \in 1..Len(Steps) : Steps[i].done =>
            LET p == Steps[i].payload IN
            /\ p # None
            /\ IF Occ # {} THEN p[1] \in Occ ELSE p[1] = -1
        /\ it.pc = "returned" => \E i \in 1..Len(Steps) : Steps[i].done

C2_Witness ==
    /\ generator = "steps_find_any"
    /\ it.pc = "returned"
    /\ Cardinality(Occ) >= 2
    /\ Len(Steps) >= 2
    /\ Steps[Len(Steps)].payload # None
    /\ Steps[Len(Steps)].payload[1] \in Occ

\* C3: first_occurrence's terminal payload is the smallest index holding the
\* key and last_occurrence's the largest, each -1 when the key does not occur.
C3_OccurrenceCorrect ==
    /\ generator = "steps_first_occurrence" =>
        /\ \A i \in 1..Len(Steps) : Steps[i].done =>
            Steps[i].payload = Some(IF Occ # {} THEN MinOf(Occ) ELSE -1)
        /\ it.pc = "returned" => \E i \in 1..Len(Steps) : Steps[i].done
    /\ generator = "steps_last_occurrence" =>
        /\ \A i \in 1..Len(Steps) : Steps[i].done =>
            Steps[i].payload = Some(IF Occ # {} THEN MaxOf(Occ) ELSE -1)
        /\ it.pc = "returned" => \E i \in 1..Len(Steps) : Steps[i].done

C3_Witness ==
    /\ generator = "steps_last_occurrence"
    /\ it.pc = "returned"
    /\ Cardinality(Occ) >= 3
    /\ MaxOf(Occ) < Len(arr) - 1
    /\ Steps[Len(Steps)].payload = Some(MaxOf(Occ))

\* C4: bisect_left's terminal payload is the number of elements < key,
\* bisect_right's the number of elements <= key, and both lie in 0..n.
C4_BisectCorrect ==
    /\ generator = "steps_bisect_left" =>
        /\ \A i \in 1..Len(Steps) : Steps[i].done =>
            /\ Steps[i].payload = Some(CountLess)
            /\ Steps[i].payload[1] \in 0..Len(arr)
        /\ it.pc = "returned" => \E i \in 1..Len(Steps) : Steps[i].done
    /\ generator = "steps_bisect_right" =>
        /\ \A i \in 1..Len(Steps) : Steps[i].done =>
            /\ Steps[i].payload = Some(CountLessEq)
            /\ Steps[i].payload[1] \in 0..Len(arr)
        /\ it.pc = "returned" => \E i \in 1..Len(Steps) : Steps[i].done

C4_Witness ==
    /\ generator = "steps_bisect_right"
    /\ it.pc = "returned"
    /\ Cardinality(Occ) >= 2
    /\ CountLess >= 1
    /\ CountLessEq < Len(arr)
    /\ Steps[Len(Steps)].payload = Some(CountLessEq)

\* C5: the count run_count_occurrences computes equals bisect_right minus
\* bisect_left, and when the first occurrence is an index, the last occurrence
\* is an index at least as large (the 'last < first' branch is never taken).
C5_CountIdentity ==
    (algo \in {6, 7} /\ phase = 3) =>
        /\ algo = 6 =>
            count = Some(RunResult("steps_bisect_right", arr, x)[1]
                         - RunResult("steps_bisect_left", arr, x)[1])
        /\ (first # None /\ first # Some(-1)) =>
            last # None /\ last[1] >= first[1]

C5_Witness ==
    /\ algo = 6
    /\ phase = 3
    /\ count # None
    /\ count[1] >= 3
    /\ first[1] >= 1

\* C6: on the empty list every generator runs no loop iteration and yields
\* exactly one step, a done "final" step with payload -1 (presence, first and
\* last occurrence) or 0 (both bisects).
C6_EmptyInput ==
    (algo # 0 /\ Len(arr) = 0) =>
        /\ Len(reqlog) >= 1 =>
            reqlog[1] = <<Step(reqlog[1][1].left, reqlog[1][1].right, reqlog[1][1].mid,
                               "final", TRUE,
                               IF generator \in {"steps_bisect_left", "steps_bisect_right"}
                               THEN Some(0) ELSE Some(-1))>>
        /\ Len(reqlog) >= 2 => Len(reqlog) = 2 /\ reqlog[2] = <<>>
        /\ it.pc # "raised"

C6_Witness ==
    /\ algo # 0
    /\ Len(arr) = 0
    /\ generator = "steps_bisect_left"
    /\ rpc = "returned"
    /\ Len(Steps) = 1
    /\ result = Some(0)

\* C7: the interval right - left strictly shrinks from each step to the next,
\* and a trace has at most floor(log2(n)) + 2 steps for n >= 1 and exactly
\* one step for n = 0.
C7_ShrinksAndLogBound ==
    algo # 0 =>
        /\ \A i \in 1..(Len(Steps) - 1) :
            Steps[i + 1].right - Steps[i + 1].left < Steps[i].right - Steps[i].left
        /\ Len(arr) >= 1 => Len(Steps) <= Log2Floor(Len(arr)) + 2
        /\ Len(arr) = 0 => Len(Steps) <= 1
        /\ (Len(arr) = 0 /\ it.pc = "returned") => Len(Steps) = 1

C7_Witness ==
    /\ it.pc = "returned"
    /\ generator = "steps_bisect_right"
    /\ Len(arr) >= 4
    /\ Len(Steps) = Log2Floor(Len(arr)) + 2

\* C8 as stated: run_steps makes no request after the request that gave the
\* done step, so a request that gave a done step is the last request made.
C8_NoRequestAfterTerminal ==
    \A i \in 1..Len(reqlog) : IsDoneStep(reqlog[i]) => i = Len(reqlog)

\* C8 amended: after the request that gave the done step, run_steps makes
\* exactly one more request; it gives no step (the generator returns and
\* next() raises StopIteration), it ends the loop, and no request follows it.
C8_OneRequestAfterTerminal ==
    /\ \A i \in 1..Len(reqlog) :
        /\ reqlog[i] = <<>> => i = Len(reqlog) /\ i >= 2 /\ IsDoneStep(reqlog[i - 1])
        /\ (IsDoneStep(reqlog[i]) /\ i < Len(reqlog)) =>
            reqlog[i + 1] = <<>> /\ Len(reqlog) = i + 1
    /\ rpc \in {"result", "returned"} =>
        Len(reqlog) >= 2 /\ reqlog[Len(reqlog)] = <<>>
    /\ (Len(reqlog) >= 1 /\ IsDoneStep(reqlog[Len(reqlog)])) =>
        rpc \in {"draw", "pause", "next"}

C8_Witness ==
    /\ rpc = "returned"
    /\ generator = "steps_find_any"
    /\ Len(reqlog) >= 3
    /\ reqlog[Len(reqlog)] = <<>>
    /\ reqlog[Len(reqlog) - 1][1].relation = "=="

\* C9: run_steps draws the steps in the order the generator yields them, asks
\* for step i+1 only after step i was drawn and its pause returned, the
\* generator moves only when asked, and the value returned is the done step's
\* payload (None while no done step was handled).
C9_StepSynchronous ==
    algo # 0 =>
        /\ Len(drawn) <= Len(Steps)
        /\ Len(Steps) <= Len(drawn) + 1
        /\ \A i \in 1..Len(drawn) : drawn[i].step = Steps[i] /\ drawn[i].no = i
        /\ acks <= Len(drawn)
        /\ Len(drawn) <= acks + 1
        /\ Len(reqlog) <= acks + 1
        /\ it = FrameAfter(generator, arr, x, Len(reqlog))
        /\ result = IF \E i \in 1..Len(drawn) : drawn[i].step.done
                    THEN drawn[CHOOSE i \in 1..Len(drawn) : drawn[i].step.done].step.payload
                    ELSE None
        /\ rpc = "returned" =>
            /\ Len(drawn) = Len(Steps)
            /\ acks = Len(Steps)
            /\ \E i \in 1..Len(Steps) : Steps[i].done /\ result = Steps[i].payload

C9_Witness ==
    /\ rpc = "returned"
    /\ Len(drawn) >= 4
    /\ acks = Len(drawn)
    /\ Len(reqlog) = acks + 1
    /\ result # None
    /\ result[1] >= 1

\* C10: every step yielded inside a loop body has 0 <= left <= mid <= right
\* <= n - 1, no list read is out of range, and the bisects' own bounds keep
\* 0 <= left <= right_open <= n.
C10_IndexSafety ==
    algo # 0 =>
        /\ \A i \in 1..Len(Steps) : Steps[i].relation # "final" =>
            /\ 0 <= Steps[i].left
            /\ Steps[i].left <= Steps[i].mid
            /\ Steps[i].mid <= Steps[i].right
            /\ Steps[i].right <= Len(arr) - 1
        /\ it.pc # "raised"
        /\ (generator \in {"steps_bisect_left", "steps_bisect_right"} /\ it.pc # "start") =>
            /\ 0 <= it.g
            /\ it.g <= it.d
            /\ it.d <= Len(arr)

C10_Witness ==
    /\ generator = "steps_bisect_left"
    /\ Len(arr) >= 4
    /\ Len(Steps) >= 3
    /\ Steps[1].right = Len(arr) - 1
    /\ Steps[3].relation # "final"
    /\ Steps[3].left = Steps[3].right

====
